---------------------------- MODULE Spec2Model ----------------------------
(***************************************************************************)
(* Model of langgraph/agent/__init__.py: create_agent, the assembler of    *)
(* the agent graph, and the routing functions it wires                     *)
(* (_resolve_jump, model_to_tools, tools_to_model, jump_edge).             *)
(*                                                                         *)
(* The life of one input: create_agent is called on a middleware sequence  *)
(* (twice, one call after the other), and the graph it returns is then run *)
(* node by node on an AgentState.                                          *)
(***************************************************************************)
EXTENDS Naturals, Sequences, FiniteSets

\* ------------------------------------------------------------------ bounds

\* Longest middleware sequence handed to create_agent.
MaxMiddleware == 2

\* Number of times create_agent is called on the same input.
MaxBuilds == 2

\* Longest transcript of a run: the model is not invoked beyond it.
MaxMessages == 4

\* Most tool calls in one assistant message.
MaxCalls == 1

\* Most modify_model_request hooks applied to one request override.
MaxApplied == 3

\* Longest transcript, and most tool calls in one assistant message, handed
\* to a routing function called on its own.
MaxTranscript == 2
MaxRouteCalls == 2

\* ---------------------------------------------------------------- constants

\* langgraph.constants START / END.
START == "__start__"
END == "__end__"

\* The value of an absent optional (Python None).
None == "None"

\* The three hooks an AgentMiddleware subclass may override.
Hooks == {"before_model", "modify_model_request", "after_model"}

\* Class names (m.__class__.__name__) available to the middleware of a
\* sequence, in the order in which a sequence first uses them.
ClassNames == <<"A", "B", "C", "D">>

Range(s) == {s[i] : i \in 1..Len(s)}

\* One middleware instance of one of the first n classes: its class name,
\* the hooks its class overrides and those of them whose return annotation
\* includes AgentJump.
MiddlewareInstances(n) ==
    {mw \in [cls : {ClassNames[k] : k \in 1..n}, hooks : SUBSET Hooks,
             jumps : SUBSET Hooks] : mw.jumps \subseteq mw.hooks}

\* Sequences are taken up to renaming of classes: each instance is of a
\* class an earlier instance has, or of the next unused class.
CanonicalNames(s) ==
    \A i \in 1..Len(s) :
        \E k \in 1..(Cardinality({s[j].cls : j \in 1..(i - 1)}) + 1) :
            s[i].cls = ClassNames[k]

\* f"{m.__class__.__name__}.{hook}"
HookNode(mw, hook) == mw.cls \o "." \o hook

\* ------------------------------------------------------------------- state

VARIABLES
    pc,                                 \* position in create_agent / the run
    middleware,                         \* the middleware argument
    response_format,                    \* the response_format argument
    middleware_w_before,                \* create_agent locals
    middleware_w_modify_model_request,
    middleware_w_after,
    default_model_request,
    graph,                              \* the StateGraph being built
    m,                                  \* loop variable of the node-adding loop
    idx,                                \* position of that loop
    first_node,
    last_node,
    built,                              \* what the finished calls returned
    node,                               \* the node the runtime executes next
    messages,                           \* AgentState.messages
    jump_to,                            \* AgentState.jump_to
    model_request,                      \* AgentState.model_request
    response,                           \* AgentState.response
    route                               \* the last routing decision taken

inputs == <<middleware, response_format>>
asmVars == <<middleware_w_before, middleware_w_modify_model_request,
             middleware_w_after, default_model_request, graph, m, idx,
             first_node, last_node>>
runVars == <<node, messages, jump_to, model_request, response, route>>

vars == <<pc, middleware, response_format, middleware_w_before,
          middleware_w_modify_model_request, middleware_w_after,
          default_model_request, graph, m, idx, first_node, last_node, built,
          node, messages, jump_to, model_request, response, route>>

\* --------------------------------------------------------- the StateGraph

\* StateGraph(...): no nodes, no edges, no branches; raised names the
\* exception an add_* call on it has raised, if any.
NewGraph == [nodes |-> {}, edges |-> {}, branches |-> {}, raised |-> None]

\* Mutant of StateGraph: one module-level graph, shared by the calls.
SharedStateGraph ==
    IF built = <<>> THEN NewGraph ELSE built[Len(built)].graph

\* graph = StateGraph(AgentState, ...): a graph of the call's own.
StateGraph == NewGraph

\* graph.add_node(name, ...): a node name is added once.
AddNode(g, name) ==
    IF g.raised # None THEN g
    ELSE IF name \in g.nodes THEN [g EXCEPT !.raised = "ValueError"]
    ELSE [g EXCEPT !.nodes = @ \cup {name}]

\* graph.add_edge(source, target)
AddEdge(g, source, target) ==
    IF g.raised # None THEN g
    ELSE [g EXCEPT !.edges = @ \cup {<<source, target>>}]

\* graph.add_conditional_edges(source, path, ends): path is the routing
\* function, named with the values its closure holds.
AddConditionalEdges(g, source, path, ends) ==
    IF g.raised # None THEN g
    ELSE IF \E b \in g.branches : b.source = source /\ b.path.fn = path.fn
    THEN [g EXCEPT !.raised = "ValueError"]
    ELSE [g EXCEPT !.branches =
              @ \cup {[source |-> source, path |-> path, ends |-> ends]}]

\* ------------------------------------------------------------ create_agent

\* Mutant of ValidMiddleware: the assert is gone.
ValidMiddlewareUnchecked(mws) == TRUE

\* assert len({m.__class__.__name__ for m in middleware}) == len(middleware)
ValidMiddleware(mws) ==
    Cardinality({mws[i].cls : i \in 1..Len(mws)}) = Len(mws)

\* [m for m in middleware if m.__class__.<hook> is not AgentMiddleware.<hook>]
MiddlewareWith(mws, hook) == SelectSeq(mws, LAMBDA mw : hook \in mw.hooks)

\* The body of the node-adding loop for one middleware.
AddMiddlewareNodes(g, mw) ==
    LET g1 == IF "before_model" \in mw.hooks
              THEN AddNode(g, HookNode(mw, "before_model")) ELSE g
        g2 == IF "modify_model_request" \in mw.hooks
              THEN AddNode(g1, HookNode(mw, "modify_model_request")) ELSE g1
    IN  IF "after_model" \in mw.hooks
        THEN AddNode(g2, HookNode(mw, "after_model")) ELSE g2

FirstNode(w_before, w_modify) ==
    IF Len(w_before) > 0 THEN HookNode(w_before[1], "before_model")
    ELSE IF Len(w_modify) > 0 THEN HookNode(w_modify[1], "modify_model_request")
    ELSE "model_request"

\* Mutant of LastNode: model_request, whatever implements after_model.
LastNodeModelRequest(w_after) == "model_request"

\* Mutant of LastNode: the last-declared after_model node.
LastNodeLastDeclared(w_after) ==
    IF Len(w_after) > 0 THEN HookNode(w_after[Len(w_after)], "after_model")
    ELSE "model_request"

LastNode(w_after) ==
    IF Len(w_after) > 0 THEN HookNode(w_after[1], "after_model")
    ELSE "model_request"

\* The closures the routing-function factories return.
ToolsToModelEdge(next_node) == [fn |-> "tools_to_model", next_node |-> next_node]
ModelToToolsEdge(first) == [fn |-> "model_to_tools", first_node |-> first]
JumpEdge(default_destination, model_destination) ==
    [fn |-> "jump_edge", default_destination |-> default_destination,
     model_destination |-> model_destination]

\* Mutant of AddMiddlewareEdge: model_destination is a candidate of every
\* jump edge.
AddMiddlewareEdgeAlwaysFirst(g, uses_jump, name, default_destination, model_destination) ==
    IF uses_jump
    THEN AddConditionalEdges(g, name,
             JumpEdge(default_destination, model_destination),
             <<default_destination, END, "tools", model_destination>>)
    ELSE AddEdge(g, name, default_destination)

\* _add_middleware_edge(graph, method, name, default_destination,
\* model_destination); uses_jump is what signature(method) shows.
AddMiddlewareEdge(g, uses_jump, name, default_destination, model_destination) ==
    IF uses_jump
    THEN LET destinations ==
                 IF name # model_destination
                 THEN <<default_destination, END, "tools", model_destination>>
                 ELSE <<default_destination, END, "tools">>
         IN  AddConditionalEdges(g, name,
                 JumpEdge(default_destination, model_destination), destinations)
    ELSE AddEdge(g, name, default_destination)

\* for m1, m2 in zip(lst, lst[1:]): _add_middleware_edge(graph, m1.<hook>,
\*     f"{m1}.<hook>", f"{m2}.<hook>", first_node), from position i on.
RECURSIVE ZipEdges(_, _, _, _, _)
ZipEdges(g, lst, hook, i, first) ==
    IF i >= Len(lst) THEN g
    ELSE ZipEdges(AddMiddlewareEdge(g, hook \in lst[i].jumps, HookNode(lst[i], hook),
                                    HookNode(lst[i + 1], hook), first),
                  lst, hook, i + 1, first)

\* "add before model edges" / "add modify model request edges": the chain,
\* then its last node into model_request.
AddChainEdges(g, lst, hook, first) ==
    IF Len(lst) > 0
    THEN AddMiddlewareEdge(ZipEdges(g, lst, hook, 1, first),
                           hook \in lst[Len(lst)].jumps,
                           HookNode(lst[Len(lst)], hook), "model_request", first)
    ELSE g

\* for idx in range(len(middleware_w_after) - 1, 0, -1), from position i
\* (1-based: i = idx + 1) down.
RECURSIVE ReverseEdges(_, _, _, _)
ReverseEdges(g, lst, i, first) ==
    IF i <= 1 THEN g
    ELSE ReverseEdges(AddMiddlewareEdge(g, "after_model" \in lst[i].jumps,
                                        HookNode(lst[i], "after_model"),
                                        HookNode(lst[i - 1], "after_model"), first),
                      lst, i - 1, first)

\* Mutant of AddAfterEdges: the after_model chain in declaration order.
AddAfterEdgesForward(g, w_after, first) ==
    IF Len(w_after) > 0
    THEN ZipEdges(AddEdge(g, "model_request", HookNode(w_after[1], "after_model")),
                  w_after, "after_model", 1, first)
    ELSE g

\* "add after model edges"
AddAfterEdges(g, w_after, first) ==
    IF Len(w_after) > 0
    THEN ReverseEdges(AddEdge(g, "model_request",
                              HookNode(w_after[Len(w_after)], "after_model")),
                      w_after, Len(w_after), first)
    ELSE g

\* Mutant of AddCondEdges: END is missing from the candidates of tools.
AddCondEdgesNoEnd(g, first, last) ==
    AddConditionalEdges(
        AddConditionalEdges(g, "tools", ToolsToModelEdge(first), <<first>>),
        last, ModelToToolsEdge(first), <<"tools", END>>)

\* "add cond edges"
AddCondEdges(g, first, last) ==
    AddConditionalEdges(
        AddConditionalEdges(g, "tools", ToolsToModelEdge(first), <<first, END>>),
        last, ModelToToolsEdge(first), <<"tools", END>>)

\* ------------------------------------------------------------- AgentState

\* AgentJump.jump_to, when given.
JumpTo == {"model", "tools", END}

\* tool_node.tools_by_name: the registered tools and their return_direct.
ToolsByName == [search |-> [return_direct |-> FALSE],
                finish |-> [return_direct |-> TRUE]]

\* The tool names an assistant message may ask for; "ghost" is unregistered.
RequestedTools == {"search", "finish", "ghost"}

\* The tool_calls lists of an assistant message (each call by its name).
CallLists == UNION {[1..n -> RequestedTools] : n \in 0..MaxCalls}

HumanMessage == [type |-> "human", tool_calls |-> <<>>]
AIMessage(calls) == [type |-> "ai", tool_calls |-> calls]
\* The ToolNode's update: the results of the calls it ran.
ToolMessage == [type |-> "tool", tool_calls |-> <<>>]

\* The fields of AgentState the routing functions read.
State(msgs, jump) == [messages |-> msgs, jump_to |-> jump]

\* Python truthiness of an optional string.
Truthy(v) == v # None /\ v # ""

\* ------------------------------------------------------- routing functions

\* Mutant of ResolveJump: "model" names the model_request node itself.
ResolveJumpRawModel(jump, first) ==
    IF jump = "model" THEN "model_request"
    ELSE IF Truthy(jump) THEN jump
    ELSE None

\* _resolve_jump(jump_to, first_node)
ResolveJump(jump, first) ==
    IF jump = "model" THEN first
    ELSE IF Truthy(jump) THEN jump
    ELSE None

\* Mutant of ModelToTools: pending tool calls are looked at before the jump
\* directive.
ModelToToolsCallsFirst(first, state) ==
    IF /\ Len(state.messages) > 0
       /\ state.messages[Len(state.messages)].type = "ai"
       /\ Len(state.messages[Len(state.messages)].tool_calls) > 0
    THEN "tools"
    ELSE IF Truthy(state.jump_to) THEN ResolveJump(state.jump_to, first)
    ELSE END

\* Mutant of ModelToTools: the jump directive is not looked at.
ModelToToolsNoJump(first, state) ==
    IF Len(state.messages) = 0 THEN "IndexError"
    ELSE IF /\ state.messages[Len(state.messages)].type = "ai"
            /\ Len(state.messages[Len(state.messages)].tool_calls) > 0
    THEN "tools"
    ELSE END

\* model_to_tools(state), with first_node from its closure.
ModelToTools(first, state) ==
    IF Truthy(state.jump_to) THEN ResolveJump(state.jump_to, first)
    ELSE IF Len(state.messages) = 0 THEN "IndexError"
    ELSE LET message == state.messages[Len(state.messages)]
         IN  IF message.type = "ai" /\ Len(message.tool_calls) > 0
             THEN "tools"
             ELSE END

\* Mutant of ToolsToModel: the calls are not filtered by tools_by_name, so
\* the lookup of an unregistered name raises.
ToolsToModelUnfiltered(next_node, state) ==
    LET ai_messages == SelectSeq(state.messages, LAMBDA msg : msg.type = "ai")
    IN  IF Len(ai_messages) = 0 THEN "IndexError"
        ELSE LET calls == ai_messages[Len(ai_messages)].tool_calls
             IN  IF \E i \in 1..Len(calls) : calls[i] \notin DOMAIN ToolsByName
                 THEN "KeyError"
                 ELSE IF \A i \in 1..Len(calls) : ToolsByName[calls[i]].return_direct
                 THEN END
                 ELSE next_node

\* tools_to_model(state), with tool_node and next_node from its closure.
ToolsToModel(next_node, state) ==
    LET ai_messages == SelectSeq(state.messages, LAMBDA msg : msg.type = "ai")
    IN  IF Len(ai_messages) = 0 THEN "IndexError"
        ELSE LET calls == ai_messages[Len(ai_messages)].tool_calls
             IN  IF \A i \in 1..Len(calls) :
                        calls[i] \in DOMAIN ToolsByName
                            => ToolsByName[calls[i]].return_direct
                 THEN END
                 ELSE next_node

\* jump_edge(state), with default_destination and model_destination from
\* its closure.
JumpEdgeFn(default_destination, model_destination, state) ==
    LET resolved == ResolveJump(state.jump_to, model_destination)
    IN  IF Truthy(resolved) THEN resolved ELSE default_destination

\* path(state) for the routing function of a branch.
CallPath(path, state) ==
    CASE path.fn = "tools_to_model" -> ToolsToModel(path.next_node, state)
      [] path.fn = "model_to_tools" -> ModelToTools(path.first_node, state)
      [] path.fn = "jump_edge" ->
            JumpEdgeFn(path.default_destination, path.model_destination, state)

\* response_format: none, or a schema.
ResponseFormats == {None, "Schema"}

\* ModelRequest(model=model, tools=..., system_prompt=system_prompt,
\* response_format=response_format, messages=[], tool_choice=None), with the
\* classes whose modify_model_request hook has returned it.
ModelRequest(format) == [response_format |-> format, modified_by |-> <<>>]

\* No request is bound to default_model_request.
NoModelRequest == ModelRequest(None)

\* What a call of create_agent hands back: the graph, or the exception.
Returned(g) == [raised |-> None, graph |-> g]
Raised(e) == [raised |-> e, graph |-> NewGraph]

\* No middleware is bound to the loop variable m.
NoMiddleware == [cls |-> None, hooks |-> {}, jumps |-> {}]

\* -------------------------------------------------- create_agent, by step

\* create_agent(model=..., tools=..., middleware=middleware): a fresh frame.
Call ==
    /\ pc = "idle"
    /\ Len(built) < MaxBuilds
    /\ pc' = "validate"
    /\ middleware_w_before' = <<>>
    /\ middleware_w_modify_model_request' = <<>>
    /\ middleware_w_after' = <<>>
    /\ default_model_request' = NoModelRequest
    /\ graph' = NewGraph
    /\ m' = NoMiddleware
    /\ idx' = 0
    /\ first_node' = None
    /\ last_node' = None
    /\ UNCHANGED <<inputs, built, runVars>>

\* "validate middleware": the assert, then the three sublists and
\* default_model_request.
Validate ==
    /\ pc = "validate"
    /\ IF ValidMiddleware(middleware)
       THEN /\ pc' = "new_graph"
            /\ middleware_w_before' = MiddlewareWith(middleware, "before_model")
            /\ middleware_w_modify_model_request' =
                   MiddlewareWith(middleware, "modify_model_request")
            /\ middleware_w_after' = MiddlewareWith(middleware, "after_model")
            /\ default_model_request' = ModelRequest(response_format)
            /\ built' = built
       ELSE /\ pc' = "idle"
            /\ built' = Append(built, Raised("AssertionError"))
            /\ UNCHANGED <<middleware_w_before, middleware_w_modify_model_request,
                           middleware_w_after, default_model_request>>
    /\ UNCHANGED <<inputs, graph, m, idx, first_node, last_node, runVars>>

\* An add_* call has raised: the exception leaves create_agent.
Propagate(g) ==
    IF g.raised # None
    THEN pc' = "idle" /\ built' = Append(built, Raised(g.raised))
    ELSE built' = built

\* "create graph, add nodes": the StateGraph and its two core nodes.
CreateGraph ==
    /\ pc = "new_graph"
    /\ graph' = AddNode(AddNode(StateGraph, "model_request"), "tools")
    /\ idx' = 1
    /\ IF graph'.raised # None THEN Propagate(graph')
       ELSE pc' = "add_nodes" /\ built' = built
    /\ UNCHANGED <<inputs, middleware_w_before, middleware_w_modify_model_request,
                   middleware_w_after, default_model_request, m, first_node,
                   last_node, runVars>>

\* for m in middleware: one pass of the loop body.
AddNodes ==
    /\ pc = "add_nodes"
    /\ idx <= Len(middleware)
    /\ m' = middleware[idx]
    /\ graph' = AddMiddlewareNodes(graph, middleware[idx])
    /\ idx' = idx + 1
    /\ IF graph'.raised # None THEN Propagate(graph')
       ELSE pc' = pc /\ built' = built
    /\ UNCHANGED <<inputs, middleware_w_before, middleware_w_modify_model_request,
                   middleware_w_after, default_model_request, first_node, last_node,
                   runVars>>

\* "add start edge": first_node, last_node, START -> first_node.
AddStartEdge ==
    /\ pc = "add_nodes"
    /\ idx > Len(middleware)
    /\ first_node' = FirstNode(middleware_w_before, middleware_w_modify_model_request)
    /\ last_node' = LastNode(middleware_w_after)
    /\ graph' = AddEdge(graph, START, first_node')
    /\ pc' = "cond_edges"
    /\ UNCHANGED <<inputs, middleware_w_before, middleware_w_modify_model_request,
                   middleware_w_after, default_model_request, m, idx, built, runVars>>

\* "add cond edges" to the end of create_agent.
AddEdges ==
    /\ pc = "cond_edges"
    /\ graph' = AddAfterEdges(
                    AddChainEdges(
                        AddChainEdges(AddCondEdges(graph, first_node, last_node),
                                      middleware_w_before, "before_model", first_node),
                        middleware_w_modify_model_request, "modify_model_request",
                        first_node),
                    middleware_w_after, first_node)
    /\ IF graph'.raised # None THEN Propagate(graph')
       ELSE pc' = "return" /\ built' = built
    /\ UNCHANGED <<inputs, middleware_w_before, middleware_w_modify_model_request,
                   middleware_w_after, default_model_request, m, idx, first_node,
                   last_node, runVars>>

\* return graph
Return ==
    /\ pc = "return"
    /\ built' = Append(built, Returned(graph))
    /\ pc' = "idle"
    /\ UNCHANGED <<inputs, middleware_w_before, middleware_w_modify_model_request,
                   middleware_w_after, default_model_request, graph, m, idx,
                   first_node, last_node, runVars>>

\* --------------------------------------------------------- the graph, run

\* What a modify_model_request hook makes of a request: the request, marked
\* with the class whose hook ran, with the response format the hook chooses.
\* A class that does not override the hook has AgentMiddleware's, which
\* returns the request as it is.
ModifyModelRequest(mw, request) ==
    IF "modify_model_request" \in mw.hooks
    THEN {[response_format |-> f, modified_by |-> Append(request.modified_by, mw.cls)] :
             f \in ResponseFormats}
    ELSE {request}

\* state.model_request or default_model_request
EffectiveRequest(override) ==
    IF override = <<>> THEN default_model_request ELSE override[1]

\* AgentState.response: none, or the value parsed from the message at a
\* position of the transcript.
NoResponse == [parsed_from |-> 0]
Parsed(position) == [parsed_from |-> position]

\* A routing decision: the node left, the routing function called (an
\* unconditional edge calls none), what it returned, and the ends declared.
NoRoute == [source |-> None, path |-> [fn |-> None], dest |-> None, ends |-> <<>>]

\* What the edges declared for node n give after n has run: each
\* unconditional edge its target, each branch what its path returns.
Successors(g, n, state) ==
    {[source |-> n, path |-> [fn |-> "edge"], dest |-> e[2], ends |-> <<e[2]>>] :
        e \in {e \in g.edges : e[1] = n}}
    \cup
    {[source |-> n, path |-> b.path, dest |-> CallPath(b.path, state), ends |-> b.ends] :
        b \in {b \in g.branches : b.source = n}}

\* The runtime follows an edge of n: a destination outside the branch's
\* declared ends fails the run.
Goto(n, state) ==
    IF Successors(graph, n, state) = {}
    THEN node' = END /\ pc' = "done" /\ route' = NoRoute
    ELSE \E r \in Successors(graph, n, state) :
            /\ route' = r
            /\ IF r.dest \in Range(r.ends)
               THEN node' = r.dest /\ pc' = IF r.dest = END THEN "done" ELSE "run"
               ELSE node' = n /\ pc' = "failed"

\* graph.invoke({"messages": [HumanMessage]}) on the graph create_agent
\* returned.
Invoke ==
    /\ pc = "idle"
    /\ Len(built) = MaxBuilds
    /\ built[Len(built)].raised = None
    /\ messages' = <<HumanMessage>>
    /\ jump_to' = None
    /\ model_request' = <<>>
    /\ response' = NoResponse
    /\ Goto(START, State(messages', jump_to'))
    /\ UNCHANGED <<inputs, asmVars, built>>

\* What a before_model or after_model hook may leave in jump_to: a hook
\* whose annotation includes AgentJump returns any jump directive, or none.
HookJumps(mw, hook, jump) ==
    IF hook \in mw.jumps THEN JumpTo \cup {None} ELSE {jump}

\* A before_model node runs m.before_model(state).
RunBeforeModel ==
    /\ pc = "run"
    /\ \E mw \in Range(middleware) :
          /\ "before_model" \in mw.hooks
          /\ node = HookNode(mw, "before_model")
          /\ jump_to' \in HookJumps(mw, "before_model", jump_to)
    /\ Goto(node, State(messages, jump_to'))
    /\ UNCHANGED <<inputs, asmVars, built, messages, model_request, response>>

\* An after_model node runs m.after_model(state).
RunAfterModel ==
    /\ pc = "run"
    /\ \E mw \in Range(middleware) :
          /\ "after_model" \in mw.hooks
          /\ node = HookNode(mw, "after_model")
          /\ jump_to' \in HookJumps(mw, "after_model", jump_to)
    /\ Goto(node, State(messages, jump_to'))
    /\ UNCHANGED <<inputs, asmVars, built, messages, model_request, response>>

\* modify_model_request_node(state): the hook of m, the loop variable its
\* closure refers to.
RunModifyModelRequest ==
    /\ pc = "run"
    /\ \E mw \in Range(middleware) :
          /\ "modify_model_request" \in mw.hooks
          /\ node = HookNode(mw, "modify_model_request")
    /\ Len(EffectiveRequest(model_request).modified_by) < MaxApplied
    /\ \E request \in ModifyModelRequest(m, EffectiveRequest(model_request)) :
          model_request' = <<request>>
    /\ Goto(node, State(messages, jump_to))
    /\ UNCHANGED <<inputs, asmVars, built, messages, jump_to, response>>

\* Mutant of RunModelRequest: without a response format the update is the
\* message alone, whatever response the state holds.
RunModelRequestCarried ==
    /\ pc = "run"
    /\ node = "model_request"
    /\ Len(messages) < MaxMessages
    /\ \E calls \in CallLists : messages' = Append(messages, AIMessage(calls))
    /\ response' =
          IF EffectiveRequest(model_request).response_format # None
          THEN Parsed(Len(messages'))
          ELSE response
    /\ Goto(node, State(messages', jump_to))
    /\ UNCHANGED <<inputs, asmVars, built, jump_to, model_request>>

\* model_request(state): the model answers the effective request with an
\* assistant message, and with a parsed value when the request has a
\* response format; without one a response left in the state is cleared.
RunModelRequest ==
    /\ pc = "run"
    /\ node = "model_request"
    /\ Len(messages) < MaxMessages
    /\ \E calls \in CallLists : messages' = Append(messages, AIMessage(calls))
    /\ response' =
          IF EffectiveRequest(model_request).response_format # None
          THEN Parsed(Len(messages'))
          ELSE IF response # NoResponse THEN NoResponse ELSE response
    /\ Goto(node, State(messages', jump_to))
    /\ UNCHANGED <<inputs, asmVars, built, jump_to, model_request>>

\* The ToolNode runs the calls of the latest assistant message; without
\* one it raises.
RunTools ==
    /\ pc = "run"
    /\ node = "tools"
    /\ Len(messages) < MaxMessages
    /\ IF \E i \in 1..Len(messages) : messages[i].type = "ai"
       THEN /\ messages' = Append(messages, ToolMessage)
            /\ Goto(node, State(messages', jump_to))
       ELSE /\ pc' = "failed"
            /\ route' = NoRoute
            /\ UNCHANGED <<messages, node>>
    /\ UNCHANGED <<inputs, asmVars, built, jump_to, model_request, response>>

Init ==
    /\ \E n \in 0..MaxMiddleware :
          /\ middleware \in [1..n -> MiddlewareInstances(n)]
          /\ CanonicalNames(middleware)
    /\ response_format \in ResponseFormats
    /\ pc = "idle"
    /\ middleware_w_before = <<>>
    /\ middleware_w_modify_model_request = <<>>
    /\ middleware_w_after = <<>>
    /\ default_model_request = NoModelRequest
    /\ graph = NewGraph
    /\ m = NoMiddleware
    /\ idx = 0
    /\ first_node = None
    /\ last_node = None
    /\ built = <<>>
    /\ node = START
    /\ messages = <<>>
    /\ jump_to = None
    /\ model_request = <<>>
    /\ response = NoResponse
    /\ route = NoRoute

Next ==
    \/ Call
    \/ Validate
    \/ CreateGraph
    \/ AddNodes
    \/ AddStartEdge
    \/ AddEdges
    \/ Return
    \/ Invoke
    \/ RunBeforeModel
    \/ RunModifyModelRequest
    \/ RunModelRequest
    \/ RunAfterModel
    \/ RunTools

Spec == Init /\ [][Next]_vars

\* create_agent alone: the calls, and no run of what they return.
NextAssemble ==
    \/ Call
    \/ Validate
    \/ CreateGraph
    \/ AddNodes
    \/ AddStartEdge
    \/ AddEdges
    \/ Return

SpecAssemble == Init /\ [][NextAssemble]_vars

\* ------------------------------------------ the routing functions, called

\* The messages and transcripts a routing function is called on.
RouteMessages ==
    {HumanMessage, ToolMessage}
    \cup {AIMessage(calls) :
             calls \in UNION {[1..n -> RequestedTools] : n \in 0..MaxRouteCalls}}
RouteTranscripts == UNION {[1..n -> RouteMessages] : n \in 0..MaxTranscript}

\* The first nodes a pipeline may have, for a middleware of class A.
RouteNodes == {"model_request", "A.before_model", "A.modify_model_request"}

\* The jump_to values _resolve_jump is called on: absent, empty, the three
\* directives of JumpTo, and a node by its name.
RouteJumps == JumpTo \cup {None, "", "A.after_model"}

\* A call of one routing function on one state.
InitRoute ==
    /\ pc = "call"
    /\ middleware = <<>>
    /\ response_format = None
    /\ middleware_w_before = <<>>
    /\ middleware_w_modify_model_request = <<>>
    /\ middleware_w_after = <<>>
    /\ default_model_request = NoModelRequest
    /\ graph = NewGraph
    /\ m = NoMiddleware
    /\ idx = 0
    /\ first_node = None
    /\ last_node = None
    /\ built = <<>>
    /\ node = START
    /\ model_request = <<>>
    /\ response = NoResponse
    /\ \/ /\ messages = <<>>
          /\ jump_to \in RouteJumps
          /\ \E F \in RouteNodes :
                route = [NoRoute EXCEPT !.path = [fn |-> "_resolve_jump", first_node |-> F]]
       \/ /\ messages = <<>>
          /\ jump_to \in RouteJumps
          /\ \E F \in RouteNodes, d \in RouteNodes \cup {"B.before_model"} :
                route = [NoRoute EXCEPT !.path = JumpEdge(d, F)]
       \/ /\ messages \in RouteTranscripts
          /\ jump_to \in JumpTo \cup {None}
          /\ \E F \in RouteNodes :
                route = [NoRoute EXCEPT !.path = ModelToToolsEdge(F)]
       \/ /\ messages \in RouteTranscripts
          /\ jump_to = None
          /\ \E F \in RouteNodes :
                route = [NoRoute EXCEPT !.path = ToolsToModelEdge(F)]

Returns(dest) ==
    /\ pc' = "returned"
    /\ route' = [route EXCEPT !.dest = dest]
    /\ UNCHANGED <<inputs, asmVars, built, node, messages, jump_to, model_request,
                   response>>

CallResolveJump ==
    /\ pc = "call"
    /\ route.path.fn = "_resolve_jump"
    /\ Returns(ResolveJump(jump_to, route.path.first_node))

CallJumpEdge ==
    /\ pc = "call"
    /\ route.path.fn = "jump_edge"
    /\ Returns(CallPath(route.path, State(messages, jump_to)))

CallModelToTools ==
    /\ pc = "call"
    /\ route.path.fn = "model_to_tools"
    /\ Returns(CallPath(route.path, State(messages, jump_to)))

CallToolsToModel ==
    /\ pc = "call"
    /\ route.path.fn = "tools_to_model"
    /\ Returns(CallPath(route.path, State(messages, jump_to)))

NextRoute ==
    \/ CallResolveJump
    \/ CallJumpEdge
    \/ CallModelToTools
    \/ CallToolsToModel

SpecRoute == InitRoute /\ [][NextRoute]_vars

\* ----------------------------------------------------------------- claims

Conditional == {"tools_to_model", "model_to_tools", "jump_edge"}

\* C1: whenever the runtime evaluates a conditional edge wired by
\* create_agent, the destination the routing function returns is one of the
\* candidates declared for that edge.
C1_DestinationDeclared ==
    route.path.fn \in Conditional => route.dest \in Range(route.ends)

\* C2: create_agent raises on a middleware sequence in which two instances
\* share a class name, before any node is added to a graph; on a sequence of
\* pairwise distinct class names no step of a call raises and every call
\* returns a graph.
C2_DuplicateIdentityRejected ==
    IF \E i, j \in 1..Len(middleware) :
           i # j /\ middleware[i].cls = middleware[j].cls
    THEN /\ graph.nodes = {}
         /\ \A k \in 1..Len(built) :
               built[k].raised = "AssertionError" /\ built[k].graph.nodes = {}
    ELSE /\ graph.raised = None
         /\ \A k \in 1..Len(built) :
               /\ built[k].raised = None
               /\ {"model_request", "tools"} \subseteq built[k].graph.nodes

\* C2 witness: both calls on two instances of one class, each with hooks,
\* have raised.
C2_Witness ==
    /\ Len(middleware) = 2
    /\ middleware[1].cls = middleware[2].cls
    /\ middleware[1].hooks # {} /\ middleware[2].hooks # {}
    /\ Len(built) = 2
    /\ built[2].raised = "AssertionError"

\* The calls of the most recent assistant message of the transcript, and
\* those of them that name a registered tool.
LatestCalls ==
    LET ai == SelectSeq(messages, LAMBDA msg : msg.type = "ai")
    IN  ai[Len(ai)].tool_calls
Registered(calls) == {i \in 1..Len(calls) : calls[i] \in {"search", "finish"}}
HasAssistant == \E i \in 1..Len(messages) : messages[i].type = "ai"
ReturnedFrom(fn) == pc = "returned" /\ route.path.fn = fn

\* C3: tools_to_model returns the first node when every requested call of
\* the most recent assistant message names an unregistered tool, and returns
\* terminal only if some registered return-direct call is present and no
\* registered non-direct call is (stated for an assistant message that
\* requests at least one call).
C3_UnregisteredOnlyLoops ==
    (ReturnedFrom("tools_to_model") /\ HasAssistant /\ Len(LatestCalls) > 0) =>
        /\ Registered(LatestCalls) = {} => route.dest = route.path.next_node
        /\ route.dest = END =>
               /\ \E i \in Registered(LatestCalls) : LatestCalls[i] = "finish"
               /\ \A i \in Registered(LatestCalls) : LatestCalls[i] # "search"

\* C4: tools_to_model returns terminal when the registered calls of the
\* most recent assistant message are all return-direct and there is one,
\* returns the first node when one of them is not return-direct, and raises
\* for no call, whatever unregistered calls are mixed in.
C4_ReturnDirectAggregation ==
    (ReturnedFrom("tools_to_model") /\ HasAssistant) =>
        /\ (/\ Registered(LatestCalls) # {}
            /\ \A i \in Registered(LatestCalls) : LatestCalls[i] = "finish")
               => route.dest = END
        /\ (\E i \in Registered(LatestCalls) : LatestCalls[i] = "search")
               => route.dest = route.path.next_node
        /\ route.dest \in {END, route.path.next_node}

\* C4 witness: a return-direct call mixed with an unregistered one ends
\* the turn.
C4_Witness ==
    /\ ReturnedFrom("tools_to_model")
    /\ messages = <<AIMessage(<<"ghost", "finish">>), ToolMessage>>
    /\ route.dest = END

\* C5: model_to_tools returns the resolved jump target when the state has a
\* jump directive, whatever the tool calls; otherwise tools when the most
\* recent message is an assistant message with tool calls; otherwise
\* terminal.
C5_ModelToToolsDecision ==
    (ReturnedFrom("model_to_tools") /\ Len(messages) > 0) =>
        LET last == messages[Len(messages)]
        IN  /\ jump_to = "model" => route.dest = route.path.first_node
            /\ jump_to \notin {"model", None, ""} => route.dest = jump_to
            /\ (~Truthy(jump_to) /\ last.type = "ai" /\ Len(last.tool_calls) > 0)
                   => route.dest = "tools"
            /\ (~Truthy(jump_to) /\ ~(last.type = "ai" /\ Len(last.tool_calls) > 0))
                   => route.dest = END

\* C5 witness: a terminal directive wins over pending tool calls.
C5_Witness ==
    /\ ReturnedFrom("model_to_tools")
    /\ jump_to = END
    /\ messages = <<HumanMessage, AIMessage(<<"search">>)>>
    /\ route.dest = END

\* C6: _resolve_jump gives the first node for "model", any other non-empty
\* directive verbatim and nothing for an absent one, in which case jump_edge
\* returns its default destination.
C6_ResolveJump ==
    /\ ReturnedFrom("_resolve_jump") =>
          /\ jump_to = "model" => route.dest = route.path.first_node
          /\ jump_to \notin {"model", None, ""} => route.dest = jump_to
          /\ jump_to = None => route.dest = None
    /\ (ReturnedFrom("jump_edge") /\ jump_to = None)
          => route.dest = route.path.default_destination

\* C6 witness: "model" with a before_model node leading the pipeline.
C6_Witness ==
    /\ ReturnedFrom("_resolve_jump")
    /\ jump_to = "model"
    /\ route.path.first_node = "A.before_model"
    /\ route.dest = "A.before_model"

\* The positions of the middleware that implement a hook, and the earliest.
Implementing(hook) == {i \in 1..Len(middleware) : hook \in middleware[i].hooks}
Earliest(S) == CHOOSE i \in S : \A j \in S : i <= j
ExpectedFirst ==
    IF Implementing("before_model") # {}
    THEN HookNode(middleware[Earliest(Implementing("before_model"))], "before_model")
    ELSE IF Implementing("modify_model_request") # {}
    THEN HookNode(middleware[Earliest(Implementing("modify_model_request"))],
                  "modify_model_request")
    ELSE "model_request"
ExpectedLast ==
    IF Implementing("after_model") # {}
    THEN HookNode(middleware[Earliest(Implementing("after_model"))], "after_model")
    ELSE "model_request"

\* Where node n goes when no jump directive is set: the targets of its
\* unconditional edges and the default destinations of its jump edges.
Defaults(g, n) ==
    {e[2] : e \in {e \in g.edges : e[1] = n}}
    \cup {b.path.default_destination :
             b \in {b \in g.branches : b.source = n /\ b.path.fn = "jump_edge"}}

\* C7: the first node is the first-declared before_model node, else the
\* first-declared modify_model_request node, else model_request; the last
\* node is the first-declared after_model node, else model_request; START
\* leads to the first node, tools routes to {first node, END} and the last
\* node to {tools, END}.  For A (before_model only) and B (after_model only)
\* the edges A.before_model -> model_request and
\* model_request -> B.after_model exist.
C7_FirstAndLastNode ==
    pc = "return" =>
        /\ first_node = ExpectedFirst
        /\ last_node = ExpectedLast
        /\ {e \in graph.edges : e[1] = START} = {<<START, ExpectedFirst>>}
        /\ \E b \in graph.branches :
              /\ b.source = "tools"
              /\ b.path.fn = "tools_to_model"
              /\ b.path.next_node = ExpectedFirst
              /\ Range(b.ends) = {ExpectedFirst, END}
        /\ \E b \in graph.branches :
              /\ b.source = ExpectedLast
              /\ b.path.fn = "model_to_tools"
              /\ b.path.first_node = ExpectedFirst
              /\ Range(b.ends) = {"tools", END}
        /\ (/\ Len(middleware) = 2
            /\ middleware[1].cls = "A" /\ middleware[1].hooks = {"before_model"}
            /\ middleware[2].cls = "B" /\ middleware[2].hooks = {"after_model"})
              => /\ first_node = "A.before_model"
                 /\ last_node = "B.after_model"
                 /\ Defaults(graph, "A.before_model") = {"model_request"}
                 /\ <<"model_request", "B.after_model">> \in graph.edges

\* C7 witness: the graph of A (before_model only) and B (after_model only).
C7_Witness ==
    /\ pc = "return"
    /\ Len(middleware) = 2
    /\ middleware[1].cls = "A" /\ middleware[1].hooks = {"before_model"}
    /\ middleware[2].cls = "B" /\ middleware[2].hooks = {"after_model"}
    /\ first_node = "A.before_model"
    /\ last_node = "B.after_model"

\* C8: without middleware the graph has the nodes model_request and tools,
\* the one edge START -> model_request, and the two conditional edges
\* tools -> {model_request, END} and model_request -> {tools, END}.
C8_EmptyMiddlewareGraph ==
    (pc = "return" /\ middleware = <<>>) =>
        /\ first_node = "model_request"
        /\ last_node = "model_request"
        /\ graph.nodes = {"model_request", "tools"}
        /\ graph.edges = {<<START, "model_request">>}
        /\ {b.source : b \in graph.branches} = {"tools", "model_request"}
        /\ Cardinality(graph.branches) = 2
        /\ \A b \in graph.branches :
              /\ b.source = "tools" =>
                    b.path.fn = "tools_to_model" /\ Range(b.ends) = {"model_request", END}
              /\ b.source = "model_request" =>
                    b.path.fn = "model_to_tools" /\ Range(b.ends) = {"tools", END}

\* C8 witness: the second call without middleware is about to return.
C8_Witness ==
    /\ pc = "return"
    /\ middleware = <<>>
    /\ Len(built) = 1
    /\ Cardinality(graph.branches) = 2

RECURSIVE ReachableFrom(_, _)
ReachableFrom(g, S) ==
    LET T == S \cup {e[2] : e \in {e \in g.edges : e[1] \in S}}
               \cup UNION {Range(b.ends) : b \in {b \in g.branches : b.source \in S}}
    IN  IF T = S THEN S ELSE ReachableFrom(g, T)

\* C10: each before_model node defaults to the next one and the last of
\* them to the first modify_model_request node if there is one, else to
\* model_request; each modify_model_request node defaults to the next one
\* and the last of them to model_request; every modify_model_request node of
\* the graph is reachable from START.
C10_BeforeThenModifyChain ==
    pc = "return" =>
        LET B == middleware_w_before
            M == middleware_w_modify_model_request
        IN  /\ \A i \in 1..(Len(B) - 1) :
                  Defaults(graph, HookNode(B[i], "before_model"))
                      = {HookNode(B[i + 1], "before_model")}
            /\ Len(B) > 0 =>
                  Defaults(graph, HookNode(B[Len(B)], "before_model"))
                      = {IF Len(M) > 0 THEN HookNode(M[1], "modify_model_request")
                                       ELSE "model_request"}
            /\ \A i \in 1..(Len(M) - 1) :
                  Defaults(graph, HookNode(M[i], "modify_model_request"))
                      = {HookNode(M[i + 1], "modify_model_request")}
            /\ Len(M) > 0 =>
                  Defaults(graph, HookNode(M[Len(M)], "modify_model_request"))
                      = {"model_request"}
            /\ \A i \in 1..Len(M) :
                  HookNode(M[i], "modify_model_request")
                      \in ReachableFrom(graph, {START})

\* The after_model node of the i-th middleware that implements the hook.
AfterNode(i) == HookNode(middleware_w_after[i], "after_model")

\* C11: when some middleware implements after_model, model_request has the
\* one unconditional edge to the last-declared after_model node and no
\* conditional edge, each after_model node but the first-declared defaults
\* to the one declared before it, and the first-declared one is the last
\* node, the only source of model_to_tools; in a run model_request is
\* followed by the last-declared after_model node, an after_model node
\* without a jump directive by the one declared before it, and
\* model_to_tools is evaluated at the first-declared one only.
C11_AfterChainReverse ==
    Len(middleware_w_after) > 0 =>
        /\ pc = "return" =>
              /\ {e \in graph.edges : e[1] = "model_request"}
                     = {<<"model_request", AfterNode(Len(middleware_w_after))>>}
              /\ ~\E b \in graph.branches : b.source = "model_request"
              /\ \A i \in 2..Len(middleware_w_after) :
                     Defaults(graph, AfterNode(i)) = {AfterNode(i - 1)}
              /\ last_node = AfterNode(1)
              /\ \A b \in graph.branches :
                     b.path.fn = "model_to_tools" <=> b.source = AfterNode(1)
        /\ pc \in {"run", "done", "failed"} =>
              /\ route.source = "model_request"
                     => route.dest = AfterNode(Len(middleware_w_after))
              /\ \A i \in 2..Len(middleware_w_after) :
                     (route.source = AfterNode(i) /\ jump_to = None)
                         => route.dest = AfterNode(i - 1)
              /\ route.path.fn = "model_to_tools" <=> route.source = AfterNode(1)

\* C11 witness: with after_model of A and B, the run has gone from
\* model_request to B.after_model and from there to A.after_model.
C11_Witness ==
    /\ pc = "run"
    /\ Len(middleware_w_after) = 2
    /\ messages[Len(messages)].type = "ai"
    /\ route.source = AfterNode(2)
    /\ route.dest = AfterNode(1)
    /\ node = AfterNode(1)
    /\ jump_to = None

\* The hook nodes create_agent hands to _add_middleware_edge, each with
\* what the signature of its hook shows: every before_model and
\* modify_model_request node, and every after_model node but the
\* first-declared one.
BuilderWired ==
    {[name |-> HookNode(mw, "before_model"),
      uses_jump |-> "before_model" \in mw.jumps] : mw \in Range(middleware_w_before)}
    \cup {[name |-> HookNode(mw, "modify_model_request"),
           uses_jump |-> "modify_model_request" \in mw.jumps] :
              mw \in Range(middleware_w_modify_model_request)}
    \cup {[name |-> AfterNode(i),
           uses_jump |-> "after_model" \in middleware_w_after[i].jumps] :
              i \in 2..Len(middleware_w_after)}

EdgesOf(g, n) == {e \in g.edges : e[1] = n}
BranchesOf(g, n) == {b \in g.branches : b.source = n}

\* C12: a node wired by _add_middleware_edge whose hook is not
\* jump-capable has one unconditional edge and no conditional edge, and a
\* run leaves it by that edge whatever jump_to holds; a jump-capable one has
\* no unconditional edge and one conditional edge, jump_edge, with the
\* candidates default destination, END, tools, and the first node exactly
\* when the node is not the first node, and a run leaving it gets the
\* resolved jump target when jump_to is set and the default destination
\* otherwise.
C12_MiddlewareEdgeBuilder ==
    \A w \in BuilderWired :
        /\ pc = "return" =>
              IF w.uses_jump
              THEN /\ EdgesOf(graph, w.name) = {}
                   /\ Cardinality(BranchesOf(graph, w.name)) = 1
                   /\ \A b \in BranchesOf(graph, w.name) :
                          /\ b.path.fn = "jump_edge"
                          /\ b.path.model_destination = first_node
                          /\ b.ends =
                                 IF w.name # first_node
                                 THEN <<b.path.default_destination, END, "tools",
                                        first_node>>
                                 ELSE <<b.path.default_destination, END, "tools">>
                          /\ first_node \in Range(b.ends) <=> w.name # first_node
              ELSE /\ Cardinality(EdgesOf(graph, w.name)) = 1
                   /\ BranchesOf(graph, w.name) = {}
        /\ (pc \in {"run", "done", "failed"} /\ route.source = w.name) =>
              IF w.uses_jump
              THEN /\ route.path.fn = "jump_edge"
                   /\ jump_to = "model" => route.dest = first_node
                   /\ jump_to \in {"tools", END} => route.dest = jump_to
                   /\ jump_to = None => route.dest = route.path.default_destination
              ELSE /\ route.path.fn = "edge"
                   /\ <<w.name, route.dest>> \in graph.edges

\* C12 witness: the jump-capable before_model node of B, which is not the
\* first node, sends a run to the first node on "model".
C12_Witness ==
    /\ pc = "run"
    /\ Len(middleware_w_before) = 2
    /\ route.source = HookNode(middleware_w_before[2], "before_model")
    /\ "before_model" \in middleware_w_before[2].jumps
    /\ jump_to = "model"
    /\ route.ends = <<"model_request", END, "tools", first_node>>
    /\ route.dest = first_node

\* The position in the transcript of the latest assistant message, 0
\* without one.
LatestInvocation ==
    LET S == {i \in 1..Len(messages) : messages[i].type = "ai"}
    IN  IF S = {} THEN 0 ELSE CHOOSE i \in S : \A j \in S : j <= i

\* C13: when the model_request node has just run, response is null if the
\* effective request had no response format and the value parsed from that
\* invocation if it had one; a response that is not null is always the one
\* parsed from the most recent model invocation.
C13_ResponseScopedToTurn ==
    /\ (pc \in {"run", "done", "failed"} /\ route.source = "model_request") =>
          response = IF EffectiveRequest(model_request).response_format = None
                     THEN NoResponse
                     ELSE Parsed(Len(messages))
    /\ response # NoResponse =>
          /\ LatestInvocation > 0
          /\ response = Parsed(LatestInvocation)

\* C13 witness: create_agent was given a response format, and the second
\* model invocation of the run, on an override without one, has left no
\* response.
C13_Witness ==
    /\ pc = "run"
    /\ route.source = "model_request"
    /\ default_model_request.response_format = "Schema"
    /\ model_request # <<>>
    /\ EffectiveRequest(model_request).response_format = None
    /\ Len(EffectiveRequest(model_request).modified_by) = 2
    /\ Len(messages) = 4
    /\ response = NoResponse

\* C14: the request override a modify_model_request node has produced is
\* used by one execution of model_request and is gone after it: when
\* model_request has run, and on the pass that follows the tools node, the
\* state holds no override, so that pass starts from default_model_request.
C14_OverrideConsumedOnce ==
    (pc = "run" /\ route.source \in {"model_request", "tools"}) =>
        /\ model_request = <<>>
        /\ EffectiveRequest(model_request) = default_model_request

\* C15: when the node X.modify_model_request has run, the request override
\* in the state is what the modify_model_request hook of X returned,
\* wherever X stands in the middleware sequence.
C15_NodeAppliesOwnHook ==
    \A mw \in Range(middleware_w_modify_model_request) :
        (/\ pc \in {"run", "done", "failed"}
         /\ route.source = HookNode(mw, "modify_model_request")) =>
            /\ model_request # <<>>
            /\ Len(model_request[1].modified_by) > 0
            /\ model_request[1].modified_by[Len(model_request[1].modified_by)]
                   = mw.cls

\* C16: the model_request node, the modify_model_request nodes and the
\* tools node leave jump_to as it is, and a model_to_tools decision taken
\* while jump_to is "tools" sends the run to tools, never to END, whatever
\* the latest assistant message asks for.
C16_JumpDirectivePersists ==
    /\ []((/\ pc \in {"run", "done", "failed"}
           /\ route.path.fn = "model_to_tools"
           /\ jump_to = "tools")
              => (route.dest = "tools" /\ node = "tools" /\ pc = "run"))
    /\ [][(RunModelRequest \/ RunModifyModelRequest \/ RunTools)
              => jump_to' = jump_to]_vars

\* C16 witness: on the second pass of a run jump_to is still "tools", the
\* model has asked for no tool, and model_to_tools has sent the run to
\* tools again.
C16_Witness ==
    /\ pc = "run"
    /\ jump_to = "tools"
    /\ Len(messages) = 4
    /\ messages[3].type = "tool"
    /\ messages[4] = AIMessage(<<>>)
    /\ route.path.fn = "model_to_tools"
    /\ route.dest = "tools"
    /\ node = "tools"

\* C17: in the graph of a middleware sequence of distinct class names,
\* START has one outgoing edge and every node has one outgoing declaration,
\* an unconditional edge or a conditional edge; model_request has the
\* model_to_tools conditional edge when no middleware implements
\* after_model, and otherwise the unconditional edge into the after_model
\* chain alone.
C17_OneOutgoingDeclaration ==
    (pc = "return" /\ ValidMiddleware(middleware)) =>
        /\ graph.raised = None
        /\ Cardinality(EdgesOf(graph, START)) = 1
        /\ BranchesOf(graph, START) = {}
        /\ graph.nodes =
               {"model_request", "tools"}
               \cup {HookNode(middleware[i], h) :
                        <<i, h>> \in {x \in (1..Len(middleware)) \X Hooks :
                                         x[2] \in middleware[x[1]].hooks}}
        /\ \A n \in graph.nodes :
               Cardinality(EdgesOf(graph, n)) + Cardinality(BranchesOf(graph, n)) = 1
        /\ \A e \in graph.edges : e[1] \in graph.nodes \cup {START}
        /\ \A b \in graph.branches : b.source \in graph.nodes
        /\ IF middleware_w_after = <<>>
           THEN /\ EdgesOf(graph, "model_request") = {}
                /\ \A b \in BranchesOf(graph, "model_request") :
                       b.path.fn = "model_to_tools"
           ELSE /\ BranchesOf(graph, "model_request") = {}
                /\ EdgesOf(graph, "model_request")
                       = {<<"model_request", AfterNode(Len(middleware_w_after))>>}

\* C17 witness: the graph of two middleware that each implement the three
\* hooks, with its eight nodes.
C17_Witness ==
    /\ pc = "return"
    /\ Len(middleware) = 2
    /\ middleware[1].hooks = Hooks
    /\ middleware[2].hooks = Hooks
    /\ middleware[1].jumps = {"after_model"}
    /\ Cardinality(graph.nodes) = 8
    /\ Cardinality(graph.edges) + Cardinality(graph.branches) = 9

=============================================================================
